---- MODULE Spec2Model ----
(***************************************************************************)
(* Model of app.py, the Streamlit "Business Strategy Simulator".           *)
(*                                                                         *)
(* A session is a sequence of script runs; each run renders the page the   *)
(* sidebar radio selects (Overview, Input Data, Run Simulation, Summary)   *)
(* against st.session_state, which holds the keys "predictions" and        *)
(* "results_df".  One action models one render of one page.                *)
(*                                                                         *)
(* Arithmetic.  Python computes the series in binary floating point; the   *)
(* model computes it in exact rational arithmetic (reduced fractions       *)
(* [n, d]), so equalities below are equalities of real numbers.  NaN, the  *)
(* mean of an empty column, is the fraction [n |-> 0, d |-> 0].            *)
(* Lengths on the PDF page are in units of 1/127 pt, in which the A4       *)
(* height 297 mm = 297 * 72 / 25.4 pt is the integer 106920.               *)
(***************************************************************************)
EXTENDS Integers, Sequences, FiniteSets

VARIABLES
    session_state,  \* st.session_state: a dict, keys "predictions", "results_df"
    page,           \* the page the last script run rendered
    msg,            \* the st.success / st.error / exception box of that run
    run,            \* locals data, actual_factor of the last completed simulation,
                    \* and the number of rows of the frame it replaced
    shown,          \* what a completed Summary put on the page: avg_pred,
                    \* avg_act, feedback, downloads, pdf
    pd_has_np       \* whether the installed pandas still has the alias pd.np

vars == <<session_state, page, msg, run, shown, pd_has_np>>

\* The empty dict.
Empty == [k \in {} |-> 0]

\* d[key] = v
Put(d, key, v) == [k \in DOMAIN d \cup {key} |-> IF k = key THEN v ELSE d[k]]

----------------------------------------------------------------------------
(* Bounds of the model. *)

\* Months the user selects in the model: 1..MaxMonths (plus rejected values).
MaxMonths == 3

\* Rows of the data frames handed to the report generator under SpecPdf.
MaxPdfRows == 40

----------------------------------------------------------------------------
(* Exact rational arithmetic standing for Python's float operators.        *)

Abs(x) == IF x < 0 THEN -x ELSE x

RECURSIVE GCD(_, _)
GCD(a, b) == IF b = 0 THEN a ELSE GCD(b, a % b)

\* The reduced fraction n/d, d > 0.
Rat(n, d) ==
    LET g == GCD(Abs(n), Abs(d))
        s == IF d < 0 THEN -1 ELSE 1
    IN  [n |-> s * (n \div g), d |-> s * (d \div g)]

NaN == [n |-> 0, d |-> 0]

IsNaN(a) == a.d = 0

FromInt(i) == [n |-> i, d |-> 1]

\* a * b, cross-reduced first so that intermediate products stay small.
RatMul(a, b) ==
    IF IsNaN(a) \/ IsNaN(b) THEN NaN
    ELSE LET g1 == GCD(Abs(a.n), b.d)
             g2 == GCD(Abs(b.n), a.d)
         IN  Rat((a.n \div g1) * (b.n \div g2), (a.d \div g2) * (b.d \div g1))

\* a + b over the least common denominator.
RatAdd(a, b) ==
    IF IsNaN(a) \/ IsNaN(b) THEN NaN
    ELSE LET g == GCD(a.d, b.d)
         IN  Rat(a.n * (b.d \div g) + b.n * (a.d \div g), (a.d \div g) * b.d)

RatNeg(a) == [n |-> -a.n, d |-> a.d]

RatSub(a, b) == RatAdd(a, RatNeg(b))

\* a / k for an integer k; x / 0 does not occur for k = 100 and k = len > 0.
RatDivInt(a, k) ==
    IF IsNaN(a) \/ k = 0 THEN NaN ELSE RatMul(a, Rat(1, k))

\* a ** k for an integer k >= 0, by repeated squaring.
RECURSIVE RatPow(_, _)
RatPow(a, k) ==
    IF k = 0 THEN FromInt(1)
    ELSE LET h == RatPow(a, k \div 2)
         IN  IF k % 2 = 0 THEN RatMul(h, h) ELSE RatMul(a, RatMul(h, h))

\* a > 0; like every comparison with NaN, NaN > 0 is False.
RatPositive(a) == ~IsNaN(a) /\ a.n > 0

----------------------------------------------------------------------------
(* The widgets of the Input Data page.  A widget returns only values       *)
(* inside its [min, max] range.                                            *)

RevenueMin == 1000
RevenueMax == 1000000
CostMin == 500
CostMax == 500000
GrowthMin == 0
GrowthMax == 50
MonthsMin == 1
MonthsMax == 36

\* st.number_input("Predicted Monthly Revenue ($)", 1000, 1000000, ...)
RevenueInput(v) == v >= RevenueMin /\ v <= RevenueMax

\* st.number_input("Predicted Monthly Cost ($)", 500, 500000, ...)
CostInput(v) == v >= CostMin /\ v <= CostMax

\* st.slider("Predicted Monthly Growth Rate (%)", 0.0, 50.0, 5.0)
GrowthSlider(v) == v >= GrowthMin /\ v <= GrowthMax

\* Faulty variant: a slider whose minimum is 0.
MonthsSlider_FromZero(v) == v >= 0 /\ v <= MonthsMax

\* st.slider("Simulation Period (months)", 1, 36, 12)
MonthsSlider(v) == v >= MonthsMin /\ v <= MonthsMax

\* Values the user tries in each widget; the first and last of each set
\* lie outside the widget's range.
RevenueTried == {RevenueMin - 1, RevenueMin, 2000, RevenueMax + 1}
CostTried == {CostMin - 1, CostMin, 1000, CostMax + 1}
GrowthTried == {GrowthMin - 1, 0, 10, GrowthMax, GrowthMax + 1}
MonthsTried == (0 .. MaxMonths) \cup {MonthsMax + 1}

\* pd.np.random.rand() draws u in [0, 1); the model draws u = t/10.
RandTenths == {0, 5, 9}

----------------------------------------------------------------------------
(* Run Simulation: the series (lines 121-133).                             *)

\* growth_rate = data["GrowthRate"] / 100
GrowthRate(d) == RatDivInt(FromInt(d.GrowthRate), 100)

\* Faulty variant: a spread of 0.3 instead of 0.2.
ActualFactor_Wide(u) == RatAdd(Rat(9, 10), RatMul(Rat(3, 10), u))

\* actual_factor = 0.9 + (0.2 * pd.np.random.rand())
ActualFactor(u) == RatAdd(Rat(9, 10), RatMul(Rat(2, 10), u))

\* Faulty variant: the exponent m instead of m-1.
Pred_FromMonthOne(predicted_rev, growth_rate, m) ==
    RatMul(FromInt(predicted_rev), RatPow(RatAdd(FromInt(1), growth_rate), m))

\* pred = predicted_rev * ((1 + growth_rate) ** (m-1))
Pred(predicted_rev, growth_rate, m) ==
    RatMul(FromInt(predicted_rev),
           RatPow(RatAdd(FromInt(1), growth_rate), m - 1))

\* act = pred * actual_factor
Act(pred, factor) == RatMul(pred, factor)

\* The loop over range(1, months+1) and the DataFrame built from its rows.
SimulateRows(d, factor) ==
    [m \in 1 .. d.Months |->
        LET pred == Pred(d.Revenue, GrowthRate(d), m)
        IN  [Month            |-> m,
             PredictedRevenue |-> pred,
             ActualRevenue    |-> Act(pred, factor),
             Cost             |-> d.Cost]]

----------------------------------------------------------------------------
(* Summary: averages, feedback, exports (lines 12-81, 152-173).            *)

\* The sum of rows lo..hi of a column, taken in row order; the range is
\* split in halves to keep the evaluation shallow.
RECURSIVE ColumnSum(_, _, _, _)
ColumnSum(df, col, lo, hi) ==
    IF lo > hi THEN FromInt(0)
    ELSE IF lo = hi THEN df[lo][col]
    ELSE LET mid == (lo + hi) \div 2
         IN  RatAdd(ColumnSum(df, col, lo, mid), ColumnSum(df, col, mid + 1, hi))

\* Faulty variant: the sum of the column instead of its mean.
Mean_Total(df, col) == ColumnSum(df, col, 1, Len(df))

\* df[col].mean(); NaN for an empty column.
Mean(df, col) == RatDivInt(ColumnSum(df, col, 1, Len(df)), Len(df))

\* The two message lists (the dash of the first messages in ASCII).
ScaleUp ==
    << "Your strategy performed better than predicted - scale the approach.",
       "Consider reinvesting profits into marketing or product improvement.",
       "Evaluate if similar strategies can work in new markets." >>

ReviewCosts ==
    << "Results underperformed prediction - review your cost structure.",
       "Reassess pricing and customer acquisition channels.",
       "Run a smaller pilot before full-scale rollout next time." >>

\* Faulty variant: gap >= 0 instead of gap > 0.
generate_feedback_TieUp(predicted, actual) ==
    LET gap == RatSub(actual, predicted)
    IN  IF RatPositive(gap) \/ (~IsNaN(gap) /\ gap.n = 0)
        THEN ScaleUp ELSE ReviewCosts

\* gap = actual - predicted; if gap > 0: ... else: ...
generate_feedback(predicted, actual) ==
    LET gap == RatSub(actual, predicted)
    IN  IF RatPositive(gap) THEN ScaleUp ELSE ReviewCosts

\* The link's mime type, file extension and number of data rows written;
\* the base64 payload itself is not modelled.
download_link(df, file_type) ==
    IF file_type = "csv"
    THEN [mime |-> "text/csv", ext |-> "csv", rows |-> Len(df)]
    ELSE [mime |-> "application/vnd.openxmlformats-officedocument.spreadsheetml.sheet",
          ext |-> "xlsx", rows |-> Len(df)]

\* Points to units of 1/127 pt.
Pt(x) == x * 127

\* width, height = A4: 297 mm = 297 * 72 / 25.4 pt = 297 * 360 / 127 pt.
height == 297 * 360

\* The recommendations, one every 20 pt from height - 150 down.
TipLines(tips) ==
    [i \in 1 .. Len(tips) |-> [tip |-> tips[i], y |-> height - Pt(150) - (i - 1) * Pt(20)]]

\* y where "Simulation Data:" is drawn: below the tips, 20 pt further down.
HeadingY(tips) == height - Pt(150) - Len(tips) * Pt(20) - Pt(20)

\* Faulty variant: the page ends at the paper edge, not at the margin.
NewPageNeeded_AtZero(y) == y < 0

\* if y < 50
NewPageNeeded(y) == y < Pt(50)

\* One pass of the loop body for row i, from cursor state c = [y, pages,
\* table]: draw the row at y, move down 15 pt, and start a new page at
\* height - 50 when the cursor fell below 50.  A table line records the
\* month it prints, its cursor and its page.
DrawRow(df, i, c) ==
    LET line == [Month |-> df[i].Month, y |-> c.y, page |-> c.pages]
        y1   == c.y - Pt(15)
    IN  IF NewPageNeeded(y1)
        THEN [y |-> height - Pt(50), pages |-> c.pages + 1,
              table |-> Append(c.table, line)]
        ELSE [y |-> y1, pages |-> c.pages, table |-> Append(c.table, line)]

\* for i, row in df.iterrows(): rows lo..hi in order, from cursor state c.
\* The range is split in halves, the first half done before the second is
\* entered (pages is never below 1), to keep the evaluation shallow.
RECURSIVE DrawRows(_, _, _, _)
DrawRows(df, lo, hi, c) ==
    IF lo > hi THEN c
    ELSE IF lo = hi THEN DrawRow(df, lo, c)
    ELSE LET mid  == (lo + hi) \div 2
             left == DrawRows(df, lo, mid, c)
         IN  IF left.pages >= 1 THEN DrawRows(df, mid + 1, hi, left) ELSE left

\* The report: summary numbers, recommendations, table lines, and the
\* number of pages emitted by showPage (the closing call included).
generate_pdf_report(df, avgp, avga, tips) ==
    LET t == DrawRows(df, 1, Len(df),
                      [y |-> HeadingY(tips) - Pt(20), pages |-> 1, table |-> << >>])
    IN  [avg_pred |-> avgp, avg_act |-> avga, tips |-> TipLines(tips),
         heading_y |-> HeadingY(tips), table |-> t.table, pages |-> t.pages]

----------------------------------------------------------------------------
(* The session.                                                            *)

Init ==
    /\ session_state = Empty
    /\ page = "Overview"
    /\ msg = "Move to 'Input Data'"
    /\ run = Empty
    /\ shown = Empty
    /\ pd_has_np \in BOOLEAN

\* page == "Overview"
Overview ==
    /\ page' = "Overview"
    /\ msg' = "Move to 'Input Data'"
    /\ shown' = Empty
    /\ UNCHANGED <<session_state, run, pd_has_np>>

\* Faulty variant: storing new parameters drops the stored result.
InputData_ClearsResults ==
    \E revenue \in RevenueTried, cost \in CostTried,
       growth \in GrowthTried, months \in MonthsTried :
        /\ RevenueInput(revenue)
        /\ CostInput(cost)
        /\ GrowthSlider(growth)
        /\ MonthsSlider(months)
        /\ session_state' =
             [predictions |-> [Revenue |-> revenue, Cost |-> cost,
                               GrowthRate |-> growth, Months |-> months]]
        /\ page' = "Input Data"
        /\ msg' = "Data saved"
        /\ shown' = Empty
        /\ UNCHANGED <<run, pd_has_np>>

\* page == "Input Data": the four widgets, then the store of their values.
InputData ==
    \E revenue \in RevenueTried, cost \in CostTried,
       growth \in GrowthTried, months \in MonthsTried :
        /\ RevenueInput(revenue)
        /\ CostInput(cost)
        /\ GrowthSlider(growth)
        /\ MonthsSlider(months)
        /\ session_state' =
             Put(session_state, "predictions",
                 [Revenue |-> revenue, Cost |-> cost,
                  GrowthRate |-> growth, Months |-> months])
        /\ page' = "Input Data"
        /\ msg' = "Data saved"
        /\ shown' = Empty
        /\ UNCHANGED <<run, pd_has_np>>

\* The number of rows of the stored frame, 0 without one.
StoredRows ==
    IF "results_df" \in DOMAIN session_state
    THEN Len(session_state["results_df"]) ELSE 0

\* The simulation proper (lines 121-135), entered with predictions stored.
\* The draw of actual_factor raises AttributeError where pandas has no
\* attribute np: the script run ends there, the session state as it was.
Simulate(d) ==
    IF ~pd_has_np
    THEN /\ msg' = "AttributeError"
         /\ UNCHANGED <<session_state, run>>
    ELSE \E t \in RandTenths :
         LET f == ActualFactor(Rat(t, 10)) IN
         /\ run' = [data |-> d, actual_factor |-> f, replaced |-> StoredRows]
         /\ session_state' = Put(session_state, "results_df", SimulateRows(d, f))
         /\ msg' = "Simulation complete"

\* The widgets' default revenue and cost (lines 103-104), with a growth
\* rate and a period the model can compute.
Defaults == [Revenue |-> 50000, Cost |-> 20000, GrowthRate |-> 0, Months |-> 1]

\* Faulty variant: no test for stored predictions; the defaults stand in.
RunSimulation_Unguarded ==
    /\ page' = "Run Simulation"
    /\ shown' = Empty
    /\ UNCHANGED pd_has_np
    /\ IF "predictions" \notin DOMAIN session_state
       THEN Simulate(Defaults)
       ELSE Simulate(session_state["predictions"])

\* Faulty variant: the new rows are appended to the stored frame.
RunSimulation_Merge ==
    /\ page' = "Run Simulation"
    /\ shown' = Empty
    /\ UNCHANGED pd_has_np
    /\ IF "predictions" \notin DOMAIN session_state
       THEN /\ msg' = "Please input your data first"
            /\ UNCHANGED <<session_state, run>>
       ELSE IF "results_df" \in DOMAIN session_state /\ pd_has_np
       THEN \E t \in RandTenths :
            LET d == session_state["predictions"]
                f == ActualFactor(Rat(t, 10)) IN
            /\ run' = [data |-> d, actual_factor |-> f, replaced |-> StoredRows]
            /\ session_state' =
                 Put(session_state, "results_df",
                     session_state["results_df"] \o SimulateRows(d, f))
            /\ msg' = "Simulation complete"
       ELSE Simulate(session_state["predictions"])

\* page == "Run Simulation": without stored predictions the error box,
\* with them the simulation.
RunSimulation ==
    /\ page' = "Run Simulation"
    /\ shown' = Empty
    /\ UNCHANGED pd_has_np
    /\ IF "predictions" \notin DOMAIN session_state
       THEN /\ msg' = "Please input your data first"
            /\ UNCHANGED <<session_state, run>>
       ELSE Simulate(session_state["predictions"])

\* page == "Summary": without a stored frame the error box, with one the
\* means, the feedback, the two links and the PDF report.
Summary ==
    /\ page' = "Summary"
    /\ UNCHANGED <<session_state, run, pd_has_np>>
    /\ IF "results_df" \notin DOMAIN session_state
       THEN /\ msg' = "Please run the simulation first"
            /\ shown' = Empty
       ELSE LET df == session_state["results_df"]
                avg_pred == Mean(df, "PredictedRevenue")
                avg_act  == Mean(df, "ActualRevenue")
                feedback == generate_feedback(avg_pred, avg_act)
            IN  /\ msg' = "None"   \* no message box on this page
                /\ shown' =
                     [avg_pred  |-> avg_pred,
                      avg_act   |-> avg_act,
                      feedback  |-> feedback,
                      downloads |-> << download_link(df, "csv"),
                                       download_link(df, "excel") >>,
                      pdf       |-> generate_pdf_report(df, avg_pred, avg_act, feedback)]

Next == Overview \/ InputData \/ RunSimulation \/ Summary

Spec == Init /\ [][Next]_vars

----------------------------------------------------------------------------
(* The report generator on frames of 1..MaxPdfRows rows, longer ones than  *)
(* a session can store included, so that the page break is taken: the     *)
(* state after a completed simulation of a constant series, then Summary.  *)

InitPdf ==
    \E n \in 1 .. MaxPdfRows, t \in RandTenths :
        LET d == [Revenue |-> RevenueMin, Cost |-> CostMin,
                  GrowthRate |-> 0, Months |-> n]
            f == ActualFactor(Rat(t, 10))
        IN  /\ session_state = [predictions |-> d, results_df |-> SimulateRows(d, f)]
            /\ run = [data |-> d, actual_factor |-> f, replaced |-> 0]
            /\ page = "Run Simulation"
            /\ msg = "Simulation complete"
            /\ shown = Empty
            /\ pd_has_np = TRUE

NextPdf == Summary

SpecPdf == InitPdf /\ [][NextPdf]_vars

----------------------------------------------------------------------------
(* Vocabulary of the properties.                                           *)

HasPredictions == "predictions" \in DOMAIN session_state

HasResults == "results_df" \in DOMAIN session_state

Stored(s, key) == IF key \in DOMAIN s THEN << s[key] >> ELSE << >>

SummaryShown == DOMAIN shown # {}

\* a < b for fractions, by cross-multiplication.
RatLess(a, b) == a.n * b.d < b.n * a.d

One == FromInt(1)

\* The sum of a column, row after row.
RECURSIVE SeqSum(_, _, _)
SeqSum(df, col, i) == IF i = 0 THEN FromInt(0) ELSE RatAdd(SeqSum(df, col, i - 1), df[i][col])

\* The field constraints of a growth-mode parameter set.
ValidParameters(d) ==
    /\ d.Revenue > 0
    /\ d.Cost >= 0
    /\ d.GrowthRate >= 0 /\ d.GrowthRate <= 50
    /\ ~RatLess(GrowthRate(d), FromInt(0)) /\ ~RatLess(Rat(1, 2), GrowthRate(d))
    /\ d.Months \in 1 .. 36

\* The Month column is 1, 2, ..., n.
MonthsAre(df, n) == Len(df) = n /\ \A i \in 1 .. n : df[i].Month = i

----------------------------------------------------------------------------
(* C1: for every valid parameter set (months in 1..36) a Run Simulation    *)
(* step completes without failing and stores a result of exactly `months`  *)
(* records whose Month fields are 1, 2, ..., months.                       *)
C1_RunCompletes ==
    [][ (/\ page' = "Run Simulation"
         /\ HasPredictions
         /\ session_state["predictions"].Months \in MonthsMin .. MonthsMax)
        => (/\ msg' = "Simulation complete"
            /\ "results_df" \in DOMAIN session_state'
            /\ MonthsAre(session_state'["results_df"],
                         session_state["predictions"].Months)) ]_vars

C3_SingleFactor ==
    HasResults =>
        LET df == session_state["results_df"]
            f  == run.actual_factor
        IN  /\ ~RatLess(f, Rat(9, 10))
            /\ ~RatLess(Rat(11, 10), f)
            /\ \A m \in 1 .. Len(df) :
                   df[m].ActualRevenue = RatMul(df[m].PredictedRevenue, f)
            /\ \A m1, m2 \in 1 .. Len(df) :
                   RatMul(df[m1].ActualRevenue, df[m2].PredictedRevenue) =
                   RatMul(df[m2].ActualRevenue, df[m1].PredictedRevenue)

C3_Witness ==
    /\ HasResults
    /\ Len(session_state["results_df"]) >= 3
    /\ run.data.GrowthRate > 0
    /\ run.actual_factor # One

(* C4: a step requested before its prerequisite exists shows an error and  *)
(* computes nothing: Run Simulation without stored parameters writes no    *)
(* result, Summary without a stored result shows no averages, feedback or  *)
(* exports; and a stored result always implies stored parameters.          *)
C4_PrerequisiteGuards ==
    /\ [](HasResults => HasPredictions)
    /\ [][ /\ (page' = "Run Simulation" /\ ~HasPredictions) =>
                /\ msg' = "Please input your data first"
                /\ session_state' = session_state
                /\ shown' = Empty
           /\ (page' = "Summary" /\ ~HasResults) =>
                /\ msg' = "Please run the simulation first"
                /\ session_state' = session_state
                /\ shown' = Empty ]_vars

C4_Witness ==
    /\ page = "Summary"
    /\ msg = "Please run the simulation first"
    /\ HasPredictions
    /\ ~HasResults
    /\ pd_has_np

(* C5: generate_feedback returns the 3-item "scale up" list exactly when   *)
(* actual - predicted > 0 and the 3-item "review costs" list otherwise, a  *)
(* tie included.                                                           *)
C5_FeedbackBranches ==
    SummaryShown =>
        /\ Len(shown.feedback) = 3
        /\ shown.feedback = ScaleUp <=> RatLess(shown.avg_pred, shown.avg_act)
        /\ shown.feedback = ReviewCosts <=> ~RatLess(shown.avg_pred, shown.avg_act)
        /\ shown.avg_act = shown.avg_pred => shown.feedback = ReviewCosts

C5_Witness ==
    /\ SummaryShown
    /\ shown.avg_act = shown.avg_pred
    /\ shown.feedback = ReviewCosts

(* C6: the stored parameters always satisfy revenue > 0, cost >= 0, growth *)
(* percentage in [0, 50], months an integer in [1, 36], and so do the      *)
(* parameters every simulation was run with (growthRate in [0, 0.5]).      *)
C6_ParametersInRange ==
    /\ HasPredictions => ValidParameters(session_state["predictions"])
    /\ DOMAIN run # {} => ValidParameters(run.data)

C6_Witness ==
    /\ page = "Run Simulation"
    /\ HasResults
    /\ run.data = session_state["predictions"]
    /\ run.data.GrowthRate = 50

(* C7: a completed run replaces the stored result entirely: the stored     *)
(* result is exactly the series of the most recent completed run, computed *)
(* from the parameters stored at that moment, with no record of an earlier *)
(* run (a shorter run after a longer one leaves only the shorter series).  *)
C7_RunReplacesResult ==
    /\ [](HasResults =>
            /\ MonthsAre(session_state["results_df"], run.data.Months)
            /\ session_state["results_df"] = SimulateRows(run.data, run.actual_factor))
    /\ [][ (page' = "Run Simulation" /\ msg' = "Simulation complete") =>
             /\ run'.data = session_state["predictions"]
             /\ MonthsAre(session_state'["results_df"],
                          session_state["predictions"].Months)
             /\ \A i \in 1 .. Len(session_state'["results_df"]) :
                    session_state'["results_df"][i].Cost =
                        session_state["predictions"].Cost ]_vars

C7_Witness ==
    /\ page = "Run Simulation"
    /\ msg = "Simulation complete"
    /\ run.replaced = 3
    /\ Len(session_state["results_df"]) = 1

(* C8: generate_pdf_report writes one table line per record, in month      *)
(* order, and starts a new page (cursor back at height - 50) exactly when  *)
(* the cursor fell below 50 after a row; no row is drawn below 50, and a   *)
(* result of 1..36 records has all its rows on the first page.             *)
C8_PdfTable ==
    SummaryShown =>
        LET df == session_state["results_df"]
            t  == shown.pdf.table
        IN  /\ Len(t) = Len(df)
            /\ \A i \in 1 .. Len(t) : t[i].Month = df[i].Month /\ t[i].Month = i
            /\ t[1].page = 1
            /\ \A i \in 1 .. Len(t) : t[i].y >= 50 * 127
            /\ \A i \in 1 .. Len(t) - 1 :
                   IF t[i].y - 15 * 127 < 50 * 127
                   THEN t[i + 1].page = t[i].page + 1 /\ t[i + 1].y = height - 50 * 127
                   ELSE t[i + 1].page = t[i].page /\ t[i + 1].y = t[i].y - 15 * 127
            /\ Len(df) <= 36 => \A i \in 1 .. Len(t) : t[i].page = 1

C8_Witness ==
    /\ SummaryShown
    /\ \E i \in 1 .. Len(shown.pdf.table) : shown.pdf.table[i].page = 2

(* C9: only Run Simulation writes the stored result and only Input Data    *)
(* writes the stored parameters: a render of Overview, Input Data or       *)
(* Summary leaves the result as it was, a render of Overview, Run          *)
(* Simulation or Summary leaves the parameters as they were.               *)
C9_Frame ==
    [][ /\ page' \in {"Overview", "Input Data", "Summary"} =>
             Stored(session_state', "results_df") = Stored(session_state, "results_df")
        /\ page' \in {"Overview", "Run Simulation", "Summary"} =>
             Stored(session_state', "predictions") = Stored(session_state, "predictions")
      ]_vars

C9_Witness ==
    /\ page = "Input Data"
    /\ HasResults
    /\ session_state["predictions"] # run.data
    /\ session_state["results_df"] = SimulateRows(run.data, run.actual_factor)

====
